---- MODULE Spec2Model ----
(***************************************************************************)
(* Model of the pentest-scheduler pipeline of src/README.md (the Go code   *)
(* that follows the README text): findGitRepositories, analyzeRepository,  *)
(* getCommitInfo, getChangeStats, getRepositorySize, calculateRiskScore,   *)
(* calculatePriority, sortRepositoriesByRisk and analyzeRepositories.      *)
(*                                                                         *)
(* float64 values are modelled as exact rationals in lowest terms, so the  *)
(* arithmetic is that of the reals: rounding of float64 is not modelled.   *)
(***************************************************************************)
EXTENDS Integers, Sequences, FiniteSets, TLC

(***************************************************************************)
(* Rational numbers: [n |-> numerator, d |-> denominator > 0], normalised. *)
(***************************************************************************)
Abs(x) == IF x < 0 THEN -x ELSE x

RECURSIVE GCD(_, _)
GCD(a, b) == IF b = 0 THEN a ELSE GCD(b, a % b)

Rat(n, d) ==
    LET g == GCD(Abs(n), d)
    IN  [n |-> n \div g, d |-> d \div g]

RInt(i) == [n |-> i, d |-> 1]
RAdd(a, b) == Rat(a.n * b.d + b.n * a.d, a.d * b.d)
RSub(a, b) == Rat(a.n * b.d - b.n * a.d, a.d * b.d)
RMul(a, b) == Rat(a.n * b.n, a.d * b.d)
RLt(a, b) == a.n * b.d < b.n * a.d
RLe(a, b) == a.n * b.d <= b.n * a.d
RMin(a, b) == IF RLt(b, a) THEN b ELSE a

(***************************************************************************)
(* Sequences.                                                              *)
(***************************************************************************)
Last(s) == s[Len(s)]
Front(s) == SubSeq(s, 1, Len(s) - 1)

RECURSIVE SeqsUpTo(_, _)
SeqsUpTo(S, k) ==
    IF k = 0 THEN {<<>>}
    ELSE LET shorter == SeqsUpTo(S, k - 1)
         IN  shorter \cup {Append(s, x) : s \in shorter, x \in S}

(***************************************************************************)
(* The directory tree under config.RepositoriesDir.  A path is the         *)
(* sequence of its names below the base directory; Children lists the      *)
(* entries of a directory in the lexical order filepath.Walk reads them    *)
(* in ('.' sorts before the letters).  Which of the .git entries exist,    *)
(* and as a directory or as a file, is chosen in Init.                     *)
(***************************************************************************)
BaseDir == <<>>
AppDir == <<"app">>
AppGit == <<"app", ".git">>
AppGitModules == <<"app", ".git", "modules">>
AppGitModulesGit == <<"app", ".git", "modules", ".git">>
VendorDir == <<"app", "vendor">>
VendorGit == <<"app", "vendor", ".git">>
WebDir == <<"web">>
WebGit == <<"web", ".git">>

Nodes ==
    {BaseDir, AppDir, AppGit, AppGitModules, AppGitModulesGit,
     VendorDir, VendorGit, WebDir, WebGit}

MarkerNodes == {AppGit, VendorGit, WebGit}

NoNode == <<"-">>

Skeleton(p) ==
    CASE p = BaseDir -> <<AppDir, WebDir>>
      [] p = AppDir -> <<AppGit, VendorDir>>
      [] p = AppGit -> <<AppGitModules>>
      [] p = AppGitModules -> <<AppGitModulesGit>>
      [] p = VendorDir -> <<VendorGit>>
      [] p = WebDir -> <<WebGit>>
      [] OTHER -> <<>>

FsKinds == [MarkerNodes -> {"absent", "dir", "file"}]

Kind(tree, p) == IF p \in MarkerNodes THEN tree[p] ELSE "dir"

RECURSIVE Present(_)
Present(s) ==
    IF s = <<>> THEN <<>>
    ELSE IF Head(s).kind = "absent" THEN Present(Tail(s))
    ELSE <<Head(s).path>> \o Present(Tail(s))

\* readDirNames: the entries of directory p that exist, in lexical order
Children(tree, p) ==
    Present([i \in 1..Len(Skeleton(p)) |->
               [path |-> Skeleton(p)[i], kind |-> Kind(tree, Skeleton(p)[i])]])

\* filepath.Dir and filepath.Base of a path below the base directory
Dir(p) == Front(p)
Base(p) == IF p = <<>> THEN "." ELSE Last(p)

(***************************************************************************)
(* Values the git commands print.  A token is one whitespace-separated     *)
(* field of output: a decimal number or some other text.  A time.Time is   *)
(* the zero value or a number of hours before the moment of scoring        *)
(* (negative: a commit dated in the future).                               *)
(***************************************************************************)
Num(i) == [num |-> TRUE, v |-> i, s |-> ""]
Txt(t) == [num |-> FALSE, v |-> 0, s |-> t]

\* strconv.Atoi
Atoi(tok) == [ok |-> tok.num, v |-> IF tok.num THEN tok.v ELSE 0]

ZeroTime == [zero |-> TRUE, ago |-> 0]
HoursAgo(h) == [zero |-> FALSE, ago |-> h]

\* time.Since(t).Hours(): the Duration saturates at its maximum (2^63-1 ns,
\* about 2562047 hours) for the zero time
MaxDurationHours == 2562047
HoursSince(t) == IF t.zero THEN MaxDurationHours ELSE t.ago

(***************************************************************************)
(* type RepositoryAnalysis, with the zero value of every field but Name    *)
(* and Path (analyzeRepository, first statement).                          *)
(***************************************************************************)
NewAnalysis(repoPath) ==
    [Name |-> Base(repoPath), Path |-> repoPath,
     LastCommitDate |-> ZeroTime, CommitCount |-> 0, FilesChanged |-> 0,
     LinesAdded |-> 0, LinesDeleted |-> 0, LinesModified |-> 0,
     TotalChanges |-> 0, ChangePercentage |-> RInt(0), RiskScore |-> RInt(0),
     RecommendedPriority |-> "", Error |-> ""]

(***************************************************************************)
(* getCommitInfo.  revList and lastLog are the results of the two git      *)
(* commands: [err, out].  The output of "git log -1" is empty, a date      *)
(* that parses, or text that does not.                                     *)
(***************************************************************************)
getCommitInfo(revList, lastLog) ==
    IF revList.err
    THEN [commitCount |-> 0, lastCommit |-> ZeroTime, err |-> TRUE]
    ELSE IF ~Atoi(revList.out).ok
    THEN [commitCount |-> 0, lastCommit |-> ZeroTime, err |-> TRUE]
    ELSE LET commitCount == Atoi(revList.out).v
         IN  IF lastLog.err
             THEN [commitCount |-> commitCount, lastCommit |-> ZeroTime, err |-> TRUE]
             ELSE IF lastLog.out.kind = "empty"
             THEN [commitCount |-> commitCount, lastCommit |-> ZeroTime, err |-> FALSE]
             ELSE IF lastLog.out.kind # "date"
             THEN [commitCount |-> commitCount, lastCommit |-> ZeroTime, err |-> TRUE]
             ELSE [commitCount |-> commitCount, lastCommit |-> lastLog.out.t, err |-> FALSE]

(***************************************************************************)
(* getChangeStats.  diff is the result of "git diff --numstat HEAD~1 HEAD" *)
(* and logStat that of the fallback "git log --since --numstat"; the       *)
(* output is a sequence of lines, each the sequence of its fields.         *)
(***************************************************************************)
RECURSIVE ScanLines(_, _)
ScanLines(lines, acc) ==
    IF lines = <<>> THEN acc
    ELSE LET parts == Head(lines)
             added == IF Len(parts) >= 3 /\ parts[1] # Txt("-") /\ Atoi(parts[1]).ok
                      THEN Atoi(parts[1]).v ELSE 0
             deleted == IF Len(parts) >= 3 /\ parts[2] # Txt("-") /\ Atoi(parts[2]).ok
                        THEN Atoi(parts[2]).v ELSE 0
             files == IF Len(parts) >= 3 THEN {parts[3]} ELSE {}
         IN  ScanLines(Tail(lines),
                       [fileSet |-> acc.fileSet \cup files,
                        linesAdded |-> acc.linesAdded + added,
                        linesDeleted |-> acc.linesDeleted + deleted])

\* getChangeStats returning the error of the diff, without the second command
getChangeStatsNoFallback(diff, logStat) ==
    IF diff.err
    THEN [filesChanged |-> 0, linesAdded |-> 0, linesDeleted |-> 0, err |-> TRUE]
    ELSE LET acc == ScanLines(diff.out, [fileSet |-> {}, linesAdded |-> 0, linesDeleted |-> 0])
         IN  [filesChanged |-> Cardinality(acc.fileSet),
              linesAdded |-> acc.linesAdded,
              linesDeleted |-> acc.linesDeleted,
              err |-> FALSE]

getChangeStats(diff, logStat) ==
    IF diff.err /\ logStat.err
    THEN [filesChanged |-> 0, linesAdded |-> 0, linesDeleted |-> 0, err |-> TRUE]
    ELSE LET output == IF diff.err THEN logStat.out ELSE diff.out
             acc == ScanLines(output, [fileSet |-> {}, linesAdded |-> 0, linesDeleted |-> 0])
         IN  [filesChanged |-> Cardinality(acc.fileSet),
              linesAdded |-> acc.linesAdded,
              linesDeleted |-> acc.linesDeleted,
              err |-> FALSE]

(***************************************************************************)
(* getRepositorySize.  lsFiles is the result of "git ls-files": [err, out] *)
(* with out the tracked files, each [err, lines] as countLinesInFile       *)
(* answers for it.                                                         *)
(***************************************************************************)
RECURSIVE SumLines(_)
SumLines(files) ==
    IF files = <<>> THEN 0
    ELSE (IF Head(files).err THEN 0 ELSE Head(files).lines) + SumLines(Tail(files))

\* getRepositorySize without the guard for a total of 0
getRepositorySizeNoFloor(lsFiles) ==
    IF lsFiles.err THEN [size |-> 1, err |-> TRUE]
    ELSE [size |-> SumLines(lsFiles.out), err |-> FALSE]

getRepositorySize(lsFiles) ==
    IF lsFiles.err THEN [size |-> 1, err |-> TRUE]
    ELSE LET totalLines == SumLines(lsFiles.out)
         IN  IF totalLines = 0 THEN [size |-> 1, err |-> FALSE]
             ELSE [size |-> totalLines, err |-> FALSE]

(***************************************************************************)
(* calculateRiskScore and calculatePriority.                               *)
(***************************************************************************)
\* calculateRiskScore without its last statement (the normalisation to 100)
calculateRiskScoreUncapped(analysis) ==
    LET s1 == RMul(analysis.ChangePercentage, Rat(4, 10))
        s2 == IF analysis.CommitCount > 0
              THEN LET t == RAdd(s1, RInt(analysis.CommitCount * 3))
                   IN  IF RLt(RInt(30), t) THEN RInt(30) ELSE t
              ELSE s1
        daysSinceLastCommit == Rat(HoursSince(analysis.LastCommitDate), 24)
    IN  IF RLt(daysSinceLastCommit, RInt(7)) THEN RAdd(s2, RInt(30))
        ELSE IF RLt(daysSinceLastCommit, RInt(30)) THEN RAdd(s2, RInt(20))
        ELSE IF RLt(daysSinceLastCommit, RInt(90)) THEN RAdd(s2, RInt(10))
        ELSE s2

\* Factor 1: what the first statement adds for the change percentage
changeFactor(analysis) == RMul(analysis.ChangePercentage, Rat(4, 10))

\* the running score after Factor 2; the cap acts on the running score
scoreAfterCommits(analysis) ==
    LET s1 == changeFactor(analysis)
    IN  IF analysis.CommitCount > 0
        THEN LET t == RAdd(s1, RInt(analysis.CommitCount * 3))
             IN  IF RLt(RInt(30), t) THEN RInt(30) ELSE t
        ELSE s1

\* Factor 2: what the commit-frequency block adds to the running score
commitFactor(analysis) ==
    RSub(scoreAfterCommits(analysis), changeFactor(analysis))

\* Factor 3 with <= in place of < in the three comparisons
recencyFactorInclusive(analysis) ==
    LET daysSinceLastCommit == Rat(HoursSince(analysis.LastCommitDate), 24)
    IN  IF RLe(daysSinceLastCommit, RInt(7)) THEN 30
        ELSE IF RLe(daysSinceLastCommit, RInt(30)) THEN 20
        ELSE IF RLe(daysSinceLastCommit, RInt(90)) THEN 10
        ELSE 0

\* Factor 3: what the recency block adds to the running score
recencyFactor(analysis) ==
    LET daysSinceLastCommit == Rat(HoursSince(analysis.LastCommitDate), 24)
    IN  IF RLt(daysSinceLastCommit, RInt(7)) THEN 30
        ELSE IF RLt(daysSinceLastCommit, RInt(30)) THEN 20
        ELSE IF RLt(daysSinceLastCommit, RInt(90)) THEN 10
        ELSE 0

calculateRiskScore(analysis) ==
    LET s3 == RAdd(scoreAfterCommits(analysis), RInt(recencyFactor(analysis)))
    IN  \* Normalize to 0-100
        IF RLt(RInt(100), s3) THEN RInt(100) ELSE s3

\* calculatePriority with > in place of >= in both comparisons
calculatePriorityStrict(analysis) ==
    LET score == analysis.RiskScore
    IN  IF RLt(RInt(70), score) THEN "HIGH"
        ELSE IF RLt(RInt(40), score) THEN "MEDIUM"
        ELSE "LOW"

calculatePriority(analysis) ==
    LET score == analysis.RiskScore
    IN  IF RLe(RInt(70), score) THEN "HIGH"
        ELSE IF RLe(RInt(40), score) THEN "MEDIUM"
        ELSE "LOW"

(***************************************************************************)
(* analyzeRepository.  o holds what the file system and git answer for     *)
(* this repository: isGit (os.Stat of .git), revList, lastLog, diff,       *)
(* logStat and lsFiles.                                                    *)
(***************************************************************************)
\* analyzeRepository without the return that follows a change-stats error
analyzeRepositoryNoReturn(repoPath, o) ==
    LET analysis == NewAnalysis(repoPath)
        info == getCommitInfo(o.revList, o.lastLog)
        stats == getChangeStats(o.diff, o.logStat)
        sized == getRepositorySize(o.lsFiles)
        repoSize == IF sized.err THEN 1 ELSE sized.size
        a1 == [analysis EXCEPT !.CommitCount = info.commitCount,
                               !.LastCommitDate = info.lastCommit,
                               !.Error = IF stats.err THEN "Failed to get change stats"
                                         ELSE ""]
        a2 == [a1 EXCEPT !.FilesChanged = stats.filesChanged,
                         !.LinesAdded = stats.linesAdded,
                         !.LinesDeleted = stats.linesDeleted,
                         !.LinesModified = stats.linesAdded + stats.linesDeleted,
                         !.TotalChanges = stats.linesAdded + stats.linesDeleted]
        a3 == IF repoSize > 0
              THEN [a2 EXCEPT !.ChangePercentage =
                                  RMul(Rat(a2.TotalChanges, repoSize), RInt(100))]
              ELSE a2
        a4 == [a3 EXCEPT !.RiskScore = calculateRiskScore(a3)]
    IN  IF ~o.isGit
        THEN [analysis EXCEPT !.Error = "Not a valid git repository"]
        ELSE IF info.err
        THEN [analysis EXCEPT !.Error = "Failed to get commit info"]
        ELSE [a4 EXCEPT !.RecommendedPriority = calculatePriority(a4)]

analyzeRepository(repoPath, o) ==
    LET analysis == NewAnalysis(repoPath)
        info == getCommitInfo(o.revList, o.lastLog)
        stats == getChangeStats(o.diff, o.logStat)
        sized == getRepositorySize(o.lsFiles)
        repoSize == IF sized.err THEN 1 ELSE sized.size
        a1 == [analysis EXCEPT !.CommitCount = info.commitCount,
                               !.LastCommitDate = info.lastCommit]
        a2 == [a1 EXCEPT !.FilesChanged = stats.filesChanged,
                         !.LinesAdded = stats.linesAdded,
                         !.LinesDeleted = stats.linesDeleted,
                         !.LinesModified = stats.linesAdded + stats.linesDeleted,
                         !.TotalChanges = stats.linesAdded + stats.linesDeleted]
        a3 == IF repoSize > 0
              THEN [a2 EXCEPT !.ChangePercentage =
                                  RMul(Rat(a2.TotalChanges, repoSize), RInt(100))]
              ELSE a2
        a4 == [a3 EXCEPT !.RiskScore = calculateRiskScore(a3)]
    IN  IF ~o.isGit
        THEN [analysis EXCEPT !.Error = "Not a valid git repository"]
        ELSE IF info.err
        THEN [analysis EXCEPT !.Error = "Failed to get commit info"]
        ELSE IF stats.err
        THEN [a1 EXCEPT !.Error = "Failed to get change stats"]
        ELSE [a4 EXCEPT !.RecommendedPriority = calculatePriority(a4)]

(***************************************************************************)
(* sortRepositoriesByRisk: the two nested loops, swapping results[i] and   *)
(* results[j] (0-based i < j; the sequences here are 1-based).             *)
(***************************************************************************)
\* the comparison of sortRepositoriesByRisk without its second disjunct
SwapConditionScoreOnly(ri, rj) == RLt(ri.RiskScore, rj.RiskScore)

SwapCondition(ri, rj) ==
    \/ RLt(ri.RiskScore, rj.RiskScore)
    \/ /\ ri.RiskScore = rj.RiskScore
       /\ RLt(ri.ChangePercentage, rj.ChangePercentage)

Swap(results, i, j) ==
    [results EXCEPT ![i] = results[j], ![j] = results[i]]

RECURSIVE InnerLoop(_, _, _)
InnerLoop(results, i, j) ==
    IF j > Len(results) THEN results
    ELSE IF SwapCondition(results[i], results[j])
    THEN InnerLoop(Swap(results, i, j), i, j + 1)
    ELSE InnerLoop(results, i, j + 1)

RECURSIVE OuterLoop(_, _)
OuterLoop(results, i) ==
    IF i > Len(results) - 1 THEN results
    ELSE OuterLoop(InnerLoop(results, i, i + 1), i + 1)

sortRepositoriesByRisk(results) == OuterLoop(results, 1)

(***************************************************************************)
(* State of one run of analyzeRepositories(config).                        *)
(***************************************************************************)
VARIABLES
    fs,            \* the directory tree: kind of each .git entry
    errAt,         \* the node at which lstat or the directory read fails
    config,        \* [IncludeInactive, MinChangeThreshold]
    pc,            \* "walk", "analyze" or "done"
    pending,       \* nodes filepath.Walk has still to visit, next first
    visited,       \* nodes the walk function was called for, in order
    repositories,  \* the list findGitRepositories builds
    analysed,      \* what analyzeRepository returned, call by call
    answers,       \* what git answered, call by call (single-repository runs)
    results,       \* the AnalysisResults under construction
    ret            \* the pair analyzeRepositories returned, once it has

\* the variables of analyzeRepositories
svars ==
    <<fs, errAt, config, pc, pending, visited, repositories, analysed,
      answers, results, ret>>

(***************************************************************************)
(* State of the downloader (main.go, github.go, gitlab.go): the runs of    *)
(* downloadGitHubRepos or downloadGitLabRepos over one target directory.   *)
(***************************************************************************)
VARIABLES
    dconfig,          \* Config: [Platform, ProdMode, AllGroups]
    dpc,              \* "idle", "listRepos", "listGroups", "listProjects",
                      \* "filter", "clone" or "done"
    page,             \* opt.Page of the listing under way
    fetched,          \* responses received in the listing under way
    allGroups,        \* the groups listed (all-groups mode)
    groupIndex,       \* position in allGroups of the group under way, or 0
    allRepos,         \* allRepos / allProjects of the listing under way
    checked,          \* repositories the production filter has looked at
    productionRepos,  \* the list the production filter builds
    reposToDownload,  \* reposToDownload / projectsToDownload
    cloneIndex,       \* repositories of reposToDownload already processed
    downloadedCount,  \* downloadedCount of the group under way
    disk,             \* names of the directories below config.TargetDir
    requests,         \* every list request and its response, in order
    checks,           \* every call of the catalog check, in order
    clones,           \* every call of cloneRepository, in order
    returns,          \* what downloadFromSpecificGroupInternal returned
    dret,             \* what the run returned: "none", "nil" or "error"
    runs              \* runs of the program started so far

dvars ==
    <<dconfig, dpc, page, fetched, allGroups, groupIndex, allRepos, checked,
      productionRepos, reposToDownload, cloneIndex, downloadedCount, disk,
      requests, checks, clones, returns, dret, runs>>

vars == <<svars, dvars>>

\* the downloader not started: the state of its variables while the
\* scheduler runs
DownloadIdle ==
    /\ dconfig = [Platform |-> "", ProdMode |-> FALSE, AllGroups |-> FALSE]
    /\ dpc = "idle"
    /\ page = 0
    /\ fetched = 0
    /\ allGroups = <<>>
    /\ groupIndex = 0
    /\ allRepos = <<>>
    /\ checked = 0
    /\ productionRepos = <<>>
    /\ reposToDownload = <<>>
    /\ cloneIndex = 0
    /\ downloadedCount = 0
    /\ disk = {}
    /\ requests = <<>>
    /\ checks = <<>>
    /\ clones = <<>>
    /\ returns = <<>>
    /\ dret = "none"
    /\ runs = 0

\* a few tracked files, at most, are listed per numstat output
MaxLines == 2

(***************************************************************************)
(* What git can answer.  The run over a whole tree draws the answers for   *)
(* each repository from the few values of "Few"; the run over a tree with  *)
(* a single repository draws them from the larger sets of "Many".          *)
(***************************************************************************)
Date(h) == [kind |-> "date", t |-> HoursAgo(h)]
NoDate(k) == [kind |-> k, t |-> ZeroTime]

LineMain == <<Num(600), Num(17), Txt("main.go")>>
LineBinary == <<Txt("-"), Txt("-"), Txt("logo.png")>>
LineA == <<Num(60), Num(39), Txt("a.go")>>
LineAgain == <<Num(0), Num(1), Txt("a.go")>>
LineShort == <<Num(5), Num(5)>>
\* two files whose paths contain a space: "user guide.md" and "user notes.md"
LineGuide == <<Num(3), Num(1), Txt("user"), Txt("guide.md")>>
LineNotes == <<Num(2), Num(2), Txt("user"), Txt("notes.md")>>

File(n) == [err |-> FALSE, lines |-> n]
Unreadable == [err |-> TRUE, lines |-> 0]

Few ==
    [kept |-> FALSE,
     counts |-> {Num(0), Num(45)},
     dates |-> {Date(48), Date(2400)},
     outputs |-> {<<>>, <<LineMain>>},
     tracked |-> {<<File(5000)>>}]

Many ==
    [kept |-> TRUE,
     counts |-> {Txt("fatal"), Num(0), Num(1), Num(45)},
     dates |-> {NoDate("empty"), NoDate("garbage"), Date(-24), Date(48),
                Date(168), Date(720), Date(2160)},
     outputs |-> SeqsUpTo({LineMain, LineBinary, LineA, LineAgain, LineShort,
                           LineGuide, LineNotes}, MaxLines),
     tracked |-> {<<>>, <<File(5000)>>, <<File(100), Unreadable>>}]

Failed(out) == [err |-> TRUE, out |-> out]
Answered(out) == [err |-> FALSE, out |-> out]

NotAsked ==
    [isGit |-> TRUE, revList |-> Failed(Txt("")), lastLog |-> Failed(NoDate("empty")),
     diff |-> Failed(<<>>), logStat |-> Failed(<<>>), lsFiles |-> Failed(<<>>)]

Thresholds == {RInt(0), Rat(1234, 100)}

Configs == [IncludeInactive : BOOLEAN, MinChangeThreshold : Thresholds]

\* the (*AnalysisResults, error) pair: not yet returned, (results, nil), (nil, err)
NotReturned == [results |-> "none", err |-> FALSE]
ReturnResults == [results |-> "results", err |-> FALSE]
ReturnError == [results |-> "nil", err |-> TRUE]

NewResults == [TotalRepos |-> 0, ActiveRepos |-> 0, Results |-> <<>>]

Start(tree, e, c) ==
    /\ fs = tree
    /\ errAt = e
    /\ config = c
    /\ pc = "walk"
    /\ pending = <<BaseDir>>
    /\ visited = <<>>
    /\ repositories = <<>>
    /\ analysed = <<>>
    /\ answers = <<>>
    /\ results = NewResults
    /\ ret = NotReturned
    /\ DownloadIdle

\* the nodes of the tree that exist
RECURSIVE Exists(_, _)
Exists(tree, p) ==
    \/ p = BaseDir
    \/ /\ Kind(tree, p) # "absent"
       /\ Kind(tree, Dir(p)) = "dir"
       /\ Exists(tree, Dir(p))

Init ==
    \E tree \in FsKinds, c \in Configs :
    \E e \in {p \in Nodes : Exists(tree, p)} \cup {NoNode} :
        Start(tree, e, c)

\* a tree whose only repository is app, and a walk without error
OneRepo == [p \in MarkerNodes |-> IF p = AppGit THEN "dir" ELSE "absent"]

InitRepo ==
    \E c \in Configs : Start(OneRepo, NoNode, c)

(***************************************************************************)
(* findGitRepositories: one call of the walk function by filepath.Walk.    *)
(* An error at the node makes the function return it, Walk return it, and  *)
(* analyzeRepositories return (nil, error).                                *)
(***************************************************************************)
\* the walk function returning nil where it is handed an error
WalkVisitIgnoreError ==
    /\ pc = "walk"
    /\ pending # <<>>
    /\ LET path == Head(pending)
       IN  /\ visited' = Append(visited, path)
           /\ IF path = errAt
              THEN /\ pending' = Tail(pending)
                   /\ UNCHANGED <<repositories, pc, ret>>
              ELSE IF Kind(fs, path) = "dir" /\ Base(path) = ".git"
              THEN /\ repositories' = Append(repositories, Dir(path))
                   /\ pending' = Tail(pending)
                   /\ UNCHANGED <<pc, ret>>
              ELSE /\ pending' = (IF Kind(fs, path) = "dir"
                                  THEN Children(fs, path) ELSE <<>>) \o Tail(pending)
                   /\ UNCHANGED <<repositories, pc, ret>>
    /\ UNCHANGED <<fs, errAt, config, analysed, answers, results>>
    /\ UNCHANGED dvars

\* the walk function returning nil, not SkipDir, for a .git directory
WalkVisitNoSkip ==
    /\ pc = "walk"
    /\ pending # <<>>
    /\ LET path == Head(pending)
       IN  /\ visited' = Append(visited, path)
           /\ IF path = errAt
              THEN /\ pc' = "done"
                   /\ ret' = ReturnError
                   /\ pending' = <<>>
                   /\ UNCHANGED repositories
              ELSE /\ repositories' =
                          IF Kind(fs, path) = "dir" /\ Base(path) = ".git"
                          THEN Append(repositories, Dir(path)) ELSE repositories
                   /\ pending' = (IF Kind(fs, path) = "dir"
                                  THEN Children(fs, path) ELSE <<>>) \o Tail(pending)
                   /\ UNCHANGED <<pc, ret>>
    /\ UNCHANGED <<fs, errAt, config, analysed, answers, results>>
    /\ UNCHANGED dvars

WalkVisit ==
    /\ pc = "walk"
    /\ pending # <<>>
    /\ LET path == Head(pending)
       IN  /\ visited' = Append(visited, path)
           /\ IF path = errAt
              THEN /\ pc' = "done"
                   /\ ret' = ReturnError
                   /\ pending' = <<>>
                   /\ UNCHANGED repositories
              ELSE IF Kind(fs, path) = "dir" /\ Base(path) = ".git"
              THEN /\ repositories' = Append(repositories, Dir(path))
                   /\ pending' = Tail(pending)
                   /\ UNCHANGED <<pc, ret>>
              ELSE /\ pending' = (IF Kind(fs, path) = "dir"
                                  THEN Children(fs, path) ELSE <<>>) \o Tail(pending)
                   /\ UNCHANGED <<repositories, pc, ret>>
    /\ UNCHANGED <<fs, errAt, config, analysed, answers, results>>
    /\ UNCHANGED dvars

\* the walk is over without error: results.TotalRepos = len(repositories)
WalkReturn ==
    /\ pc = "walk"
    /\ pending = <<>>
    /\ results' = [results EXCEPT !.TotalRepos = Len(repositories)]
    /\ pc' = "analyze"
    /\ UNCHANGED <<fs, errAt, config, pending, visited, repositories, analysed,
                   answers, ret>>
    /\ UNCHANGED dvars

(***************************************************************************)
(* One iteration of the loop of analyzeRepositories: analyzeRepository,    *)
(* the two filters, the active count and the append.                       *)
(***************************************************************************)
\* the loop body counting every appended record as active
IterationCountAll(res, cfg, analysis) ==
    IF ~cfg.IncludeInactive /\ analysis.CommitCount = 0 THEN res
    ELSE IF RLt(analysis.ChangePercentage, cfg.MinChangeThreshold) THEN res
    ELSE [res EXCEPT !.ActiveRepos = @ + 1,
                     !.Results = Append(@, analysis)]

\* the loop body without the first filter
IterationKeepInactive(res, cfg, analysis) ==
    IF RLt(analysis.ChangePercentage, cfg.MinChangeThreshold) THEN res
    ELSE [res EXCEPT !.ActiveRepos = IF analysis.Error = "" THEN @ + 1 ELSE @,
                     !.Results = Append(@, analysis)]

\* the loop body with <= in place of < in the second filter
IterationInclusiveThreshold(res, cfg, analysis) ==
    IF ~cfg.IncludeInactive /\ analysis.CommitCount = 0 THEN res
    ELSE IF RLe(analysis.ChangePercentage, cfg.MinChangeThreshold) THEN res
    ELSE [res EXCEPT !.ActiveRepos = IF analysis.Error = "" THEN @ + 1 ELSE @,
                     !.Results = Append(@, analysis)]

Iteration(res, cfg, analysis) ==
    IF ~cfg.IncludeInactive /\ analysis.CommitCount = 0 THEN res
    ELSE IF RLt(analysis.ChangePercentage, cfg.MinChangeThreshold) THEN res
    ELSE [res EXCEPT !.ActiveRepos = IF analysis.Error = "" THEN @ + 1 ELSE @,
                     !.Results = Append(@, analysis)]

\* a query of this repository failed and analyzeRepository gave up on it
GaveUp(o) ==
    \/ ~o.isGit
    \/ o.revList.err
    \/ ~o.revList.out.num
    \/ o.lastLog.err
    \/ o.lastLog.out.kind = "garbage"
    \/ o.diff.err /\ o.logStat.err

\* the git commands one call of analyzeRepository runs, in order, when the
\* commands answer as in o (isGitRepository runs no command)
invocations(o) ==
    IF ~o.isGit THEN <<>>
    ELSE IF o.revList.err \/ ~o.revList.out.num THEN <<"revList">>
    ELSE IF o.lastLog.err \/ o.lastLog.out.kind = "garbage"
    THEN <<"revList", "lastLog">>
    ELSE IF ~o.diff.err THEN <<"revList", "lastLog", "diff", "lsFiles">>
    ELSE IF o.logStat.err THEN <<"revList", "lastLog", "diff", "logStat">>
    ELSE <<"revList", "lastLog", "diff", "logStat", "lsFiles">>

\* the loop returning the error of the first repository that has one
AnalyzeAbortOnError(o) ==
    /\ pc = "analyze"
    /\ Len(analysed) < Len(repositories)
    /\ LET analysis == analyzeRepository(repositories[Len(analysed) + 1], o)
       IN  /\ analysed' = Append(analysed, [analysis |-> analysis, gaveUp |-> GaveUp(o)])
           /\ IF analysis.Error # ""
              THEN /\ ret' = ReturnError
                   /\ pc' = "done"
                   /\ UNCHANGED results
              ELSE /\ results' = Iteration(results, config, analysis)
                   /\ UNCHANGED <<pc, ret>>
    /\ UNCHANGED <<fs, errAt, config, pending, visited, repositories>>
    /\ UNCHANGED dvars

Analyze(o) ==
    /\ pc = "analyze"
    /\ Len(analysed) < Len(repositories)
    /\ LET analysis == analyzeRepository(repositories[Len(analysed) + 1], o)
       IN  /\ analysed' = Append(analysed, [analysis |-> analysis, gaveUp |-> GaveUp(o)])
           /\ results' = Iteration(results, config, analysis)
    /\ UNCHANGED <<fs, errAt, config, pc, pending, visited, repositories, ret>>
    /\ UNCHANGED dvars

\* one call of analyzeRepository with answers o drawn from universe u
Ask(u, o) ==
    /\ Analyze(o)
    /\ answers' = IF u.kept THEN Append(answers, o) ELSE answers

\* the answers analyzeRepository asks for, drawn from universe u; a query
\* that is not issued has the answer of NotAsked
AnalyzeWith(u) ==
    /\ pc = "analyze"
    /\ Len(analysed) < Len(repositories)
    /\ \/ Ask(u, [NotAsked EXCEPT !.isGit = FALSE])
       \/ \E revList \in {Failed(Txt(""))} \cup {Answered(c) : c \in u.counts} :
            \/ /\ revList.err \/ ~revList.out.num
               /\ Ask(u, [NotAsked EXCEPT !.revList = revList])
            \/ /\ ~revList.err /\ revList.out.num
               /\ \E lastLog \in {Failed(NoDate("empty"))} \cup {Answered(d) : d \in u.dates} :
                    \/ /\ lastLog.err \/ lastLog.out.kind = "garbage"
                       /\ Ask(u, [NotAsked EXCEPT !.revList = revList, !.lastLog = lastLog])
                    \/ /\ ~lastLog.err /\ lastLog.out.kind # "garbage"
                       /\ \E diff \in {Failed(<<>>)} \cup {Answered(l) : l \in u.outputs} :
                          \E logStat \in IF diff.err
                                         THEN {Failed(<<>>)} \cup {Answered(l) : l \in u.outputs}
                                         ELSE {Failed(<<>>)} :
                          \E lsFiles \in IF diff.err /\ logStat.err
                                         THEN {Failed(<<>>)}
                                         ELSE {Failed(<<>>)} \cup {Answered(f) : f \in u.tracked} :
                             Ask(u, [isGit |-> TRUE, revList |-> revList, lastLog |-> lastLog,
                                      diff |-> diff, logStat |-> logStat, lsFiles |-> lsFiles])

AnalyzeFew == AnalyzeWith(Few)

AnalyzeMany == AnalyzeWith(Many)

\* the sort and the return taken while repositories are still to be analysed
FinishBeforeAll ==
    /\ pc = "analyze"
    /\ results' = [results EXCEPT !.Results = sortRepositoriesByRisk(@)]
    /\ ret' = ReturnResults
    /\ pc' = "done"
    /\ UNCHANGED <<fs, errAt, config, pending, visited, repositories, analysed,
                   answers>>
    /\ UNCHANGED dvars

\* the end of the run with TotalRepos set to the length of the result list
FinishCountListed ==
    /\ pc = "analyze"
    /\ Len(analysed) = Len(repositories)
    /\ results' = [results EXCEPT !.Results = sortRepositoriesByRisk(@),
                                  !.TotalRepos = Len(results.Results)]
    /\ ret' = ReturnResults
    /\ pc' = "done"
    /\ UNCHANGED <<fs, errAt, config, pending, visited, repositories, analysed,
                   answers>>
    /\ UNCHANGED dvars

\* after the loop: sortRepositoriesByRisk(results.Results); return results, nil
Finish ==
    /\ pc = "analyze"
    /\ Len(analysed) = Len(repositories)
    /\ results' = [results EXCEPT !.Results = sortRepositoriesByRisk(@)]
    /\ ret' = ReturnResults
    /\ pc' = "done"
    /\ UNCHANGED <<fs, errAt, config, pending, visited, repositories, analysed,
                   answers>>
    /\ UNCHANGED dvars

Next == WalkVisit \/ WalkReturn \/ AnalyzeFew \/ Finish

Spec == Init /\ [][Next]_vars

NextRepo == WalkVisit \/ WalkReturn \/ AnalyzeMany \/ Finish

SpecRepo == InitRepo /\ [][NextRepo]_vars

(***************************************************************************)
(* A git command that never returns.  Every command is run with            *)
(* cmd.Output(), which waits for the process to exit; no context, timer or *)
(* goroutine stands beside it, so the call of analyzeRepository and with   *)
(* it the loop wait for ever.                                              *)
(***************************************************************************)
Hang ==
    /\ pc = "analyze"
    /\ Len(analysed) < Len(repositories)
    /\ pc' = "hung"
    /\ UNCHANGED <<fs, errAt, config, pending, visited, repositories, analysed,
                   answers, results, ret>>
    /\ UNCHANGED dvars

\* a tree with the repositories app and web, and a walk without error
TwoRepos == [p \in MarkerNodes |-> IF p = VendorGit THEN "absent" ELSE "dir"]

InitHang ==
    \E c \in Configs : Start(TwoRepos, NoNode, c)

NextHang == WalkVisit \/ WalkReturn \/ AnalyzeFew \/ Hang \/ Finish

\* the program is one sequential process: it takes its next step whenever
\* it has one
SpecHang == InitHang /\ [][NextHang]_vars /\ WF_vars(NextHang)

(***************************************************************************)
(* The downloader.  What the hosting service lists: repositories (GitHub)  *)
(* or projects (GitLab) with an ID and a name, and groups.  Two projects   *)
(* of different subgroups can have the same name.                          *)
(***************************************************************************)
Repo(id, name) == [ID |-> id, Name |-> name]
RepoApi == Repo(1, "api")
RepoWeb == Repo(2, "web")
RepoApiCopy == Repo(3, "api")

GroupPlatform == Repo(10, "platform")
GroupShop == Repo(20, "shop")

\* responses per listing, and runs of the program over one target directory
MaxPages == 2
MaxRuns == 2

\* one response of a List call: (items, resp, err) with resp.NextPage
PageError == [err |-> TRUE, items |-> <<>>, NextPage |-> 0]
Page(items, next) == [err |-> FALSE, items |-> items, NextPage |-> next]

(***************************************************************************)
(* cloneRepository(repoName, cloneURL, targetDir).  disk is the set of     *)
(* names below targetDir, git the outcome of "git clone" were it run.      *)
(* ran tells whether the command was run.                                  *)
(***************************************************************************)
\* cloneRepository without the check for an existing path
cloneRepositoryAlways(repoName, files, git) ==
    IF git = "ok"
    THEN [err |-> FALSE, ran |-> TRUE, disk |-> files \cup {repoName}]
    ELSE [err |-> TRUE, ran |-> TRUE, disk |-> files]

cloneRepository(repoName, files, git) ==
    IF repoName \in files
    THEN [err |-> FALSE, ran |-> FALSE, disk |-> files]
    ELSE IF git = "ok"
    THEN [err |-> FALSE, ran |-> TRUE, disk |-> files \cup {repoName}]
    ELSE [err |-> TRUE, ran |-> TRUE, disk |-> files]

(***************************************************************************)
(* The catalog check.  An answer of the contents API is                    *)
(* [err, status, file, base64, yaml, lifecycle]: the call failed, the HTTP *)
(* status (0: no response), a file came back, its content decodes, the     *)
(* YAML parses, and component.lifecycle.                                   *)
(***************************************************************************)
Catalog(lifecycle) ==
    [err |-> FALSE, status |-> 200, file |-> TRUE, base64 |-> TRUE,
     yaml |-> TRUE, lifecycle |-> lifecycle]
CatalogNotFound == [Catalog("") EXCEPT !.err = TRUE, !.status = 404, !.file = FALSE]
CatalogFetchError == [Catalog("") EXCEPT !.err = TRUE, !.status = 500, !.file = FALSE]
CatalogNoResponse == [Catalog("") EXCEPT !.err = TRUE, !.status = 0, !.file = FALSE]
CatalogNilFile == [Catalog("") EXCEPT !.file = FALSE]
CatalogBadBase64 == [Catalog("production") EXCEPT !.base64 = FALSE]
CatalogBadYAML == [Catalog("production") EXCEPT !.yaml = FALSE]
\* the answer of a call that is not made
CatalogNotAsked == [Catalog("") EXCEPT !.status = -1, !.file = FALSE]

\* parseCatalog without the comparison of the lifecycle
parseCatalogAnyLifecycle(a) ==
    IF ~a.file THEN [isProduction |-> FALSE, err |-> FALSE]
    ELSE IF ~a.base64 THEN [isProduction |-> FALSE, err |-> TRUE]
    ELSE IF ~a.yaml THEN [isProduction |-> FALSE, err |-> TRUE]
    ELSE [isProduction |-> TRUE, err |-> FALSE]

\* the decoding, the parsing and the comparison, common to both checks
parseCatalog(a) ==
    IF ~a.file THEN [isProduction |-> FALSE, err |-> FALSE]
    ELSE IF ~a.base64 THEN [isProduction |-> FALSE, err |-> TRUE]
    ELSE IF ~a.yaml THEN [isProduction |-> FALSE, err |-> TRUE]
    ELSE [isProduction |-> a.lifecycle = "production", err |-> FALSE]

checkGitHubCatalogFile(a) ==
    IF a.err
    THEN IF a.status = 404
         THEN [isProduction |-> FALSE, err |-> FALSE]
         ELSE [isProduction |-> FALSE, err |-> TRUE]
    ELSE parseCatalog(a)

\* main is the answer for the branch main, master the one for master
checkGitLabCatalogFile(main, master) ==
    IF main.err
    THEN IF main.status = 404
         THEN IF master.err
              THEN IF master.status = 404
                   THEN [isProduction |-> FALSE, err |-> FALSE]
                   ELSE [isProduction |-> FALSE, err |-> TRUE]
              ELSE parseCatalog(master)
         ELSE [isProduction |-> FALSE, err |-> TRUE]
    ELSE parseCatalog(main)

(***************************************************************************)
(* What the service can answer.                                            *)
(***************************************************************************)
\* the repositories (or projects) and the groups the service lists, page by
\* page; GitHub takes page 0 for page 1
RepoPage(p) ==
    CASE p \in {0, 1} -> <<RepoApi, RepoWeb>>
      [] p = 2 -> <<RepoApiCopy>>
      [] OTHER -> <<>>

GroupPage(p) ==
    CASE p \in {0, 1} -> <<GroupPlatform>>
      [] p = 2 -> <<GroupShop>>
      [] OTHER -> <<>>

Catalogs ==
    {Catalog("production"), Catalog("deprecated"), CatalogNotFound,
     CatalogFetchError, CatalogNoResponse, CatalogNilFile, CatalogBadBase64,
     CatalogBadYAML}

\* the NextPage a response can carry: 0, the page after this one or a later
\* one; the last response the listing is allowed carries 0
NextPages ==
    IF fetched + 1 < MaxPages
    THEN {0, (IF page = 0 THEN 1 ELSE page) + 1, (IF page = 0 THEN 1 ELSE page) + 2}
    ELSE {0}

Responses(items) == {PageError} \cup {Page(items, next) : next \in NextPages}

DConfigs ==
    {[Platform |-> "github", ProdMode |-> m, AllGroups |-> FALSE] : m \in BOOLEAN}
    \cup {[Platform |-> "gitlab", ProdMode |-> m, AllGroups |-> FALSE] : m \in BOOLEAN}
    \cup {[Platform |-> "gitlab", ProdMode |-> FALSE, AllGroups |-> TRUE]}

\* the scheduler not running: the state of its variables while the
\* downloader runs
SchedulerIdle ==
    /\ fs = OneRepo
    /\ errAt = NoNode
    /\ config = [IncludeInactive |-> FALSE, MinChangeThreshold |-> RInt(0)]
    /\ pc = "idle"
    /\ pending = <<>>
    /\ visited = <<>>
    /\ repositories = <<>>
    /\ analysed = <<>>
    /\ answers = <<>>
    /\ results = NewResults
    /\ ret = NotReturned

\* where a run starts: the first listing of the platform
FirstListing(c) ==
    IF c.Platform = "github" THEN "listRepos"
    ELSE IF c.AllGroups THEN "listGroups" ELSE "listProjects"

\* opt.Page before the first request: unset (GitHub) or 1 (GitLab)
FirstPage(c) == IF c.Platform = "github" THEN 0 ELSE 1

InitDownload ==
    /\ SchedulerIdle
    /\ dconfig \in DConfigs
    /\ dpc = FirstListing(dconfig)
    /\ page = FirstPage(dconfig)
    /\ fetched = 0
    /\ allGroups = <<>>
    /\ groupIndex = 0
    /\ allRepos = <<>>
    /\ checked = 0
    /\ productionRepos = <<>>
    /\ reposToDownload = <<>>
    /\ cloneIndex = 0
    /\ downloadedCount = 0
    /\ disk = {}
    /\ requests = <<>>
    /\ checks = <<>>
    /\ clones = <<>>
    /\ returns = <<>>
    /\ dret = "none"
    /\ runs = 1

(***************************************************************************)
(* The return of downloadGitHubRepos or downloadFromSpecificGroupInternal. *)
(* In all-groups mode the loop of downloadFromAllGroups takes it; otherwise *)
(* it is the result of the run.                                            *)
(***************************************************************************)
Return(err, downloaded, scanned) ==
    /\ returns' = IF dconfig.Platform = "gitlab"
                  THEN Append(returns, [run |-> runs, group |-> groupIndex,
                                        downloaded |-> downloaded,
                                        scanned |-> scanned, err |-> err])
                  ELSE returns
    /\ IF dconfig.AllGroups
       THEN dpc' = "group" /\ UNCHANGED dret
       ELSE dpc' = "done" /\ dret' = IF err THEN "error" ELSE "nil"

\* the download loop is entered unless the list is empty
StartCloning(list, all) ==
    /\ reposToDownload' = list
    /\ cloneIndex' = 0
    /\ downloadedCount' = 0
    /\ IF list = <<>>
       THEN Return(FALSE, 0, Len(all))
       ELSE dpc' = "clone" /\ UNCHANGED <<returns, dret>>

\* after the listing: the production filter, or every repository listed
EndListing(all) ==
    IF dconfig.ProdMode /\ all # <<>>
    THEN /\ dpc' = "filter"
         /\ checked' = 0
         /\ productionRepos' = <<>>
         /\ UNCHANGED <<reposToDownload, cloneIndex, downloadedCount, returns, dret>>
    ELSE /\ StartCloning(IF dconfig.ProdMode THEN <<>> ELSE all, all)
         /\ UNCHANGED <<checked, productionRepos>>

(***************************************************************************)
(* One iteration of the pagination loop over repositories (GitHub) or      *)
(* projects (GitLab), and what follows the loop when it ends.              *)
(***************************************************************************)
Request(list, resp) ==
    [run |-> runs, list |-> list, group |-> groupIndex, page |-> page,
     resp |-> resp]

\* the loop going on to the download with what it has when a page fails
ListRepositoriesKeepPages(list, resp) ==
    /\ requests' = Append(requests, Request(list, resp))
    /\ fetched' = fetched + 1
    /\ allRepos' = allRepos \o resp.items
    /\ IF ~resp.err /\ resp.NextPage # 0
       THEN /\ page' = resp.NextPage
            /\ UNCHANGED <<checked, productionRepos, reposToDownload, cloneIndex,
                           downloadedCount, dpc, dret, returns>>
       ELSE /\ EndListing(allRepos \o resp.items)
            /\ UNCHANGED page
    /\ UNCHANGED <<dconfig, runs, allGroups, groupIndex, disk, clones, checks>>
    /\ UNCHANGED svars

ListRepositories(list, resp) ==
    /\ requests' = Append(requests, Request(list, resp))
    /\ fetched' = fetched + 1
    /\ IF resp.err
       THEN /\ Return(TRUE, 0, 0)
            /\ UNCHANGED <<page, allRepos, checked, productionRepos,
                           reposToDownload, cloneIndex, downloadedCount>>
       ELSE /\ allRepos' = allRepos \o resp.items
            /\ IF resp.NextPage # 0
               THEN /\ page' = resp.NextPage
                    /\ UNCHANGED <<checked, productionRepos, reposToDownload,
                                   cloneIndex, downloadedCount, dpc, dret, returns>>
               ELSE /\ EndListing(allRepos \o resp.items)
                    /\ UNCHANGED page
    /\ UNCHANGED <<dconfig, runs, allGroups, groupIndex, disk, clones, checks>>
    /\ UNCHANGED svars

\* downloadGitHubRepos: client.Repositories.ListByOrg
ListByOrg ==
    /\ dpc = "listRepos"
    /\ \E resp \in Responses(RepoPage(page)) : ListRepositories("repos", resp)

\* downloadFromSpecificGroupInternal: client.Groups.ListGroupProjects
ListGroupProjects ==
    /\ dpc = "listProjects"
    /\ \E resp \in Responses(RepoPage(page)) : ListRepositories("projects", resp)

(***************************************************************************)
(* downloadFromAllGroups: one iteration of the pagination loop over the    *)
(* groups, and one turn of the loop over the groups listed.                *)
(***************************************************************************)
ListGroups ==
    /\ dpc = "listGroups"
    /\ \E resp \in Responses(GroupPage(page)) :
         /\ requests' = Append(requests, Request("groups", resp))
         /\ fetched' = fetched + 1
         /\ IF resp.err
            THEN /\ dpc' = "done"
                 /\ dret' = "error"
                 /\ UNCHANGED <<page, allGroups>>
            ELSE /\ allGroups' = allGroups \o resp.items
                 /\ IF resp.NextPage # 0
                    THEN /\ page' = resp.NextPage
                         /\ UNCHANGED <<dpc, dret>>
                    ELSE IF allGroups \o resp.items = <<>>
                    THEN /\ dpc' = "done"
                         /\ dret' = "nil"
                         /\ UNCHANGED page
                    ELSE /\ dpc' = "group"
                         /\ UNCHANGED <<page, dret>>
    /\ UNCHANGED <<dconfig, runs, groupIndex, allRepos, checked, productionRepos,
                   reposToDownload, cloneIndex, downloadedCount, disk, checks,
                   clones, returns>>
    /\ UNCHANGED svars

\* the call of downloadFromSpecificGroupInternal for the next group, whatever
\* the call for the group before returned; after the last group, return nil
NextGroup ==
    /\ dpc = "group"
    /\ IF groupIndex < Len(allGroups)
       THEN /\ groupIndex' = groupIndex + 1
            /\ dpc' = "listProjects"
            /\ page' = 1
            /\ fetched' = 0
            /\ allRepos' = <<>>
            /\ checked' = 0
            /\ productionRepos' = <<>>
            /\ reposToDownload' = <<>>
            /\ cloneIndex' = 0
            /\ downloadedCount' = 0
            /\ UNCHANGED dret
       ELSE /\ dpc' = "done"
            /\ dret' = "nil"
            /\ UNCHANGED <<groupIndex, page, fetched, allRepos, checked,
                           productionRepos, reposToDownload, cloneIndex,
                           downloadedCount>>
    /\ UNCHANGED <<dconfig, runs, allGroups, disk, requests, checks, clones,
                   returns>>
    /\ UNCHANGED svars

(***************************************************************************)
(* filterProductionRepos / filterProductionProjects: one iteration.        *)
(***************************************************************************)
Check(repo, main, master, out) ==
    [run |-> runs, group |-> groupIndex, repo |-> repo, main |-> main,
     master |-> master, out |-> out]

FilterStep(main, master) ==
    LET repo == allRepos[checked + 1]
        out == IF dconfig.Platform = "github"
               THEN checkGitHubCatalogFile(main)
               ELSE checkGitLabCatalogFile(main, master)
        kept == IF ~out.err /\ out.isProduction
                THEN Append(productionRepos, repo) ELSE productionRepos
    IN  /\ checks' = Append(checks, Check(repo, main, master, out))
        /\ checked' = checked + 1
        /\ productionRepos' = kept
        /\ IF checked + 1 = Len(allRepos)
           THEN StartCloning(kept, allRepos)
           ELSE UNCHANGED <<reposToDownload, cloneIndex, downloadedCount, dpc,
                            returns, dret>>
        /\ UNCHANGED <<dconfig, runs, page, fetched, allGroups, groupIndex,
                       allRepos, disk, requests, clones>>
        /\ UNCHANGED svars

\* GitLab asks for the branch master only when main answers 404
CheckCatalog ==
    /\ dpc = "filter"
    /\ \E main \in Catalogs :
       \E master \in IF dconfig.Platform = "gitlab" /\ main.err /\ main.status = 404
                     THEN Catalogs ELSE {CatalogNotAsked} :
           FilterStep(main, master)

(***************************************************************************)
(* The download loop: one call of cloneRepository, and the return after    *)
(* the last one.  git clone is run only when the path does not exist.      *)
(***************************************************************************)
Clone(repo, out) ==
    [run |-> runs, group |-> groupIndex, repo |-> repo,
     existed |-> repo.Name \in disk, ran |-> out.ran, err |-> out.err]

\* the loop returning the error of the first clone that fails
CloneStepStopOnError(git) ==
    LET repo == reposToDownload[cloneIndex + 1]
        out == cloneRepository(repo.Name, disk, git)
        count == IF dconfig.Platform = "gitlab" /\ ~out.err
                 THEN downloadedCount + 1 ELSE downloadedCount
    IN  /\ clones' = Append(clones, Clone(repo, out))
        /\ disk' = out.disk
        /\ cloneIndex' = cloneIndex + 1
        /\ downloadedCount' = count
        /\ IF out.err THEN Return(TRUE, count, Len(allRepos))
           ELSE IF cloneIndex + 1 = Len(reposToDownload)
           THEN Return(FALSE, count, Len(allRepos))
           ELSE UNCHANGED <<dpc, returns, dret>>
        /\ UNCHANGED <<dconfig, runs, page, fetched, allGroups, groupIndex,
                       allRepos, checked, productionRepos, reposToDownload,
                       requests, checks>>
        /\ UNCHANGED svars

CloneStep(git) ==
    LET repo == reposToDownload[cloneIndex + 1]
        out == cloneRepository(repo.Name, disk, git)
        count == IF dconfig.Platform = "gitlab" /\ ~out.err
                 THEN downloadedCount + 1 ELSE downloadedCount
    IN  /\ clones' = Append(clones, Clone(repo, out))
        /\ disk' = out.disk
        /\ cloneIndex' = cloneIndex + 1
        /\ downloadedCount' = count
        /\ IF cloneIndex + 1 = Len(reposToDownload)
           THEN Return(FALSE, count, Len(allRepos))
           ELSE UNCHANGED <<dpc, returns, dret>>
        /\ UNCHANGED <<dconfig, runs, page, fetched, allGroups, groupIndex,
                       allRepos, checked, productionRepos, reposToDownload,
                       requests, checks>>
        /\ UNCHANGED svars

CloneNext ==
    /\ dpc = "clone"
    /\ \E git \in IF reposToDownload[cloneIndex + 1].Name \in disk
                  THEN {"none"} ELSE {"ok", "fail"} :
           CloneStep(git)

(***************************************************************************)
(* The program started again with the same flags on the same target        *)
(* directory: everything starts over but the directory.                    *)
(***************************************************************************)
Rerun ==
    /\ dpc = "done"
    /\ runs < MaxRuns
    /\ runs' = runs + 1
    /\ dpc' = FirstListing(dconfig)
    /\ page' = FirstPage(dconfig)
    /\ fetched' = 0
    /\ allGroups' = <<>>
    /\ groupIndex' = 0
    /\ allRepos' = <<>>
    /\ checked' = 0
    /\ productionRepos' = <<>>
    /\ reposToDownload' = <<>>
    /\ cloneIndex' = 0
    /\ downloadedCount' = 0
    /\ dret' = "none"
    /\ UNCHANGED <<dconfig, disk, requests, checks, clones, returns>>
    /\ UNCHANGED svars

NextDownload ==
    \/ ListByOrg
    \/ ListGroupProjects
    \/ ListGroups
    \/ NextGroup
    \/ CheckCatalog
    \/ CloneNext

\* one run of the program, for every platform and mode
SpecDownload == InitDownload /\ [][NextDownload]_vars

\* the program is one sequential process and every call of the API returns:
\* it takes its next step whenever it has one
SpecDownloadFair == InitDownload /\ [][NextDownload]_vars /\ WF_vars(NextDownload)

\* runs without production mode and of one group
InitRerun ==
    /\ InitDownload
    /\ ~dconfig.ProdMode
    /\ ~dconfig.AllGroups

NextRerun == ListByOrg \/ ListGroupProjects \/ CloneNext \/ Rerun

\* the program run again and again over one target directory
SpecRerun == InitRerun /\ [][NextRerun]_vars

(***************************************************************************)
(* Properties.                                                             *)
(***************************************************************************)
Listed == {results.Results[i] : i \in 1..Len(results.Results)}
Returned == {analysed[i].analysis : i \in 1..Len(analysed)}
ErrorFree == {r \in Returned : r.Error = ""}
IsListed(r) == \E l \in Listed : l.Path = r.Path
PositionIn(s, x) == CHOOSE i \in 1..Len(s) : s[i] = x

\* C1: every record in the result list has a risk score between 0 and 100
\* and a change percentage that is not negative.
C1_ScoreAndPercentageBounded ==
    \A r \in Listed :
        /\ r.RiskScore.n >= 0
        /\ r.RiskScore.n <= 100 * r.RiskScore.d
        /\ r.ChangePercentage.n >= 0

\* a listed record without commits in the window, dated in the future, whose
\* change percentage alone is worth more than 100 points
C1_Witness ==
    \E r \in Listed :
        /\ r.Error = ""
        /\ r.CommitCount = 0
        /\ ~r.LastCommitDate.zero /\ r.LastCommitDate.ago < 0
        /\ r.ChangePercentage.n > 250 * r.ChangePercentage.d
        /\ r.RiskScore = RInt(100)

\* C2: the tier of an error-free record is HIGH from 70 points on, MEDIUM
\* from 40 points to below 70 and LOW below 40, and nothing else.
C2_TierFromScore ==
    \A r \in ErrorFree :
        /\ r.RecommendedPriority \in {"HIGH", "MEDIUM", "LOW"}
        /\ r.RecommendedPriority = "HIGH" <=> r.RiskScore.n >= 70 * r.RiskScore.d
        /\ r.RecommendedPriority = "LOW" <=> r.RiskScore.n < 40 * r.RiskScore.d

\* an error-free record with exactly 70 points, in tier HIGH
C2_Witness ==
    \E r \in ErrorFree :
        /\ r.RiskScore = RInt(70)
        /\ r.RecommendedPriority = "HIGH"

\* the score of the documentation: three components, the commit component
\* capped at 30 on its own, the sum capped at 100
DocumentedRecency(t) ==
    LET hours == HoursSince(t)
    IN  IF t.zero THEN 0
        ELSE IF hours < 7 * 24 THEN 30
        ELSE IF hours < 30 * 24 THEN 20
        ELSE IF hours < 90 * 24 THEN 10
        ELSE 0

DocumentedScore(r) ==
    RMin(RAdd(RAdd(RMul(r.ChangePercentage, Rat(4, 10)),
                   RMin(RInt(r.CommitCount * 3), RInt(30))),
              RInt(DocumentedRecency(r.LastCommitDate))),
         RInt(100))

\* C3: the risk score of an error-free record is
\* min(changePercentage * 0.4 + min(commitCount * 3, 30) + recency, 100).
C3_ScoreIsDocumentedSum ==
    \A r \in ErrorFree : r.RiskScore = DocumentedScore(r)

\* C4: a record with an error tag is in the result list whatever the
\* configuration, and is not counted in ActiveRepos.
C4_ErrorsBypassFilters ==
    /\ \A r \in Returned : r.Error # "" => IsListed(r)
    /\ results.ActiveRepos = Cardinality({l \in Listed : l.Error = ""})

\* C5: without include-inactive no error-free record with zero commits is
\* listed; with it such a record is listed when its change percentage is not
\* below the threshold.
C5_InactiveFilter ==
    /\ ~config.IncludeInactive =>
           \A l \in Listed : ~(l.Error = "" /\ l.CommitCount = 0)
    /\ config.IncludeInactive =>
           \A r \in ErrorFree :
               (r.CommitCount = 0 /\ RLe(config.MinChangeThreshold, r.ChangePercentage))
                   => IsListed(r)

\* include-inactive set, and an error-free record without commits listed
C5_Witness ==
    /\ config.IncludeInactive
    /\ \E r \in ErrorFree : r.CommitCount = 0 /\ IsListed(r)
    /\ ret = ReturnResults

\* C6: an error-free record that passes the inactive filter is dropped
\* exactly when its change percentage is strictly below the threshold.
C6_ThresholdFilter ==
    \A r \in ErrorFree :
        (config.IncludeInactive \/ r.CommitCount # 0) =>
            /\ ~IsListed(r) <=> RLt(r.ChangePercentage, config.MinChangeThreshold)
            /\ config.MinChangeThreshold = RInt(0) => IsListed(r)

\* a record whose change percentage equals a positive threshold is listed,
\* next to one that was dropped for being below it
C6_Witness ==
    /\ config.MinChangeThreshold # RInt(0)
    /\ \E r \in ErrorFree :
           r.ChangePercentage = config.MinChangeThreshold /\ IsListed(r)
    /\ \E r \in ErrorFree : r.CommitCount # 0 /\ ~IsListed(r)

Occurrences(s, x) == Cardinality({i \in 1..Len(s) : s[i] = x})

IsPermutation(s, t) ==
    /\ Len(s) = Len(t)
    /\ \A i \in 1..Len(s) : Occurrences(s, s[i]) = Occurrences(t, s[i])

InOrder(a, b) ==
    \/ RLt(b.RiskScore, a.RiskScore)
    \/ a.RiskScore = b.RiskScore /\ RLe(b.ChangePercentage, a.ChangePercentage)

\* C7: the sorted list is a permutation of the list before the sort, and
\* each record has a higher score than the next, or the same score and a
\* change percentage that is not lower.
C7_SortedPermutation ==
    [][(pc = "analyze" /\ pc' = "done") =>
          /\ IsPermutation(results'.Results, results.Results)
          /\ \A i \in 1..(Len(results'.Results) - 1) :
                 InOrder(results'.Results[i], results'.Results[i + 1])]_vars

\* three records were sorted, the last discovered comes first and two
\* records of equal score are ordered by their change percentage
C7_Witness ==
    /\ ret = ReturnResults
    /\ Len(results.Results) = 3
    /\ results.Results[1].Path = WebDir
    /\ results.Results[2].RiskScore = results.Results[3].RiskScore
    /\ RLt(results.Results[3].ChangePercentage, results.Results[2].ChangePercentage)

\* C8: two listed records with the same score and change percentage are in
\* the order in which their repositories were discovered.
C8_SortIsStable ==
    ret = ReturnResults =>
        \A i, j \in 1..Len(results.Results) :
            (/\ i < j
             /\ results.Results[i].RiskScore = results.Results[j].RiskScore
             /\ results.Results[i].ChangePercentage = results.Results[j].ChangePercentage)
                => PositionIn(repositories, results.Results[i].Path)
                       < PositionIn(repositories, results.Results[j].Path)

\* C9: analyzeRepository is called once per discovered repository, in
\* discovery order; a record has an error tag exactly when a query of its own
\* repository failed; once the walk succeeded the run returns results.
C9_PerRepositoryIsolation ==
    /\ Len(analysed) <= Len(repositories)
    /\ \A i \in 1..Len(analysed) :
           /\ analysed[i].analysis.Path = repositories[i]
           /\ analysed[i].analysis.Error # "" <=> analysed[i].gaveUp
    /\ analysed # <<>> => ~ret.err
    /\ pc = "done" /\ ~ret.err =>
           ret = ReturnResults /\ Len(analysed) = Len(repositories)

\* three repositories, the first and the last without commit information,
\* the second analysed without error, and results returned
C9_Witness ==
    /\ ret = ReturnResults
    /\ Len(analysed) = 3
    /\ analysed[1].gaveUp /\ analysed[1].analysis.Error # ""
    /\ ~analysed[2].gaveUp /\ analysed[2].analysis.Error = ""
    /\ analysed[3].gaveUp /\ analysed[3].analysis.Error # ""

WalkFailed == \E i \in 1..Len(visited) : visited[i] = errAt

\* C10: once the walk met an error the run has returned (nil, error):
\* no repository is analysed and no list is handed to the caller.
C10_DiscoveryErrorIsFatal ==
    WalkFailed =>
        /\ pc = "done"
        /\ ret = ReturnError
        /\ analysed = <<>>
        /\ results.Results = <<>>

\* the walk failed after it had found a repository
C10_Witness ==
    /\ WalkFailed
    /\ repositories # <<>>
    /\ ret = ReturnError

\* the calls of analyzeRepository whose answers were kept
Asked == 1..Len(answers)

\* the denominator of the change percentage: the lines of the tracked files,
\* or 1 when they cannot be listed or have no line
Denominator(o) ==
    IF o.lsFiles.err \/ SumLines(o.lsFiles.out) = 0 THEN 1
    ELSE SumLines(o.lsFiles.out)

\* C11: changePercentage = (linesAdded + linesDeleted) / d * 100 with d the
\* tracked line count, or 1 when the size query fails or counts 0 lines; a
\* failing size query does not error-tag the record.
C11_PercentageOverFlooredSize ==
    \A i \in Asked :
        LET r == analysed[i].analysis
            d == Denominator(answers[i])
        IN  ~analysed[i].gaveUp =>
                /\ r.Error = ""
                /\ d > 0
                /\ r.ChangePercentage.n * d
                       = (r.LinesAdded + r.LinesDeleted) * 100 * r.ChangePercentage.d

\* the size query failed, the record has no error tag and 617 changed lines
\* over the denominator 1 make 61700 percent
C11_Witness ==
    \E i \in Asked :
        /\ answers[i].lsFiles.err
        /\ analysed[i].analysis.Error = ""
        /\ analysed[i].analysis.TotalChanges = 617
        /\ analysed[i].analysis.ChangePercentage = RInt(61700)

\* C12: a record with an error tag has no total, percentage, score or tier;
\* a record without one has a tier and a score between 0 and 100.
C12_MetricsOnlyWithoutError ==
    \A r \in Returned :
        /\ r.Error # "" =>
               /\ r.TotalChanges = 0
               /\ r.ChangePercentage = RInt(0)
               /\ r.RiskScore = RInt(0)
               /\ r.RecommendedPriority = ""
        /\ r.Error = "" =>
               /\ r.RecommendedPriority \in {"HIGH", "MEDIUM", "LOW"}
               /\ r.RiskScore.n >= 0
               /\ r.RiskScore.n <= 100 * r.RiskScore.d

\* both change-stats queries failed after 45 commits were counted: the record
\* has the error tag and the commit count, and no score
C12_Witness ==
    \E r \in Returned :
        /\ r.Error = "Failed to get change stats"
        /\ r.CommitCount = 45
        /\ r.RiskScore = RInt(0)
        /\ r.RecommendedPriority = ""

\* C13: TotalRepos of the returned results is the number of repositories the
\* walk found (here: of .git directories in the tree), whatever the filters
\* drop and whatever records carry an error.
C13_TotalCountsDiscovered ==
    ret = ReturnResults =>
        /\ results.TotalRepos = Len(repositories)
        /\ results.TotalRepos = Cardinality({p \in MarkerNodes : fs[p] = "dir"})

\* three repositories discovered, one record listed, an error-tagged record
\* among those dropped
C13_Witness ==
    /\ ret = ReturnResults
    /\ results.TotalRepos = 3
    /\ Len(results.Results) = 1
    /\ \E r \in Returned : r.Error # "" /\ ~IsListed(r)

\* C14: ActiveRepos is the number of listed records without an error tag, so
\* ActiveRepos <= length of the list <= TotalRepos.
C14_ActiveCountsErrorFree ==
    ~ret.err =>
        /\ results.ActiveRepos = Cardinality({l \in Listed : l.Error = ""})
        /\ results.ActiveRepos <= Len(results.Results)
        /\ pc # "walk" => Len(results.Results) <= results.TotalRepos

\* three discovered, two listed of which one has an error tag
C14_Witness ==
    /\ ret = ReturnResults
    /\ results.TotalRepos = 3
    /\ Len(results.Results) = 2
    /\ results.ActiveRepos = 1
    /\ \E l \in Listed : l.Error # ""

\* C15: in the risk score of an error-free record the change factor adds
\* between 0 and 40 points, the commit factor between 0 and 30 points and the
\* recency factor 0, 10, 20 or 30 points.
C15_FactorRanges ==
    \A r \in ErrorFree :
        /\ RLe(RInt(0), changeFactor(r)) /\ RLe(changeFactor(r), RInt(40))
        /\ RLe(RInt(0), commitFactor(r)) /\ RLe(commitFactor(r), RInt(30))
        /\ recencyFactor(r) \in {0, 10, 20, 30}

\* C16: the recency factor of an error-free record is 30 below 7 days since
\* the last commit, 20 below 30 days, 10 below 90 days and 0 otherwise, and 0
\* for the zero time; it is what the score adds to the first two factors.
C16_RecencySteps ==
    \A r \in ErrorFree :
        /\ recencyFactor(r) = DocumentedRecency(r.LastCommitDate)
        /\ r.RiskScore = RMin(RAdd(scoreAfterCommits(r),
                                   RInt(DocumentedRecency(r.LastCommitDate))),
                              RInt(100))

\* a last commit exactly 7 days ago counts 20 on top of the capped 30
C16_Witness ==
    \E r \in ErrorFree :
        /\ r.LastCommitDate = HoursAgo(7 * 24)
        /\ r.CommitCount = 45
        /\ r.RiskScore = RInt(50)

\* the answers of a repository whose last commit is 90 days old, with no
\* commit in the window (of 30 days): rev-list counts 0 and the windowed log,
\* where it is the query that answers, lists nothing
NoCommitInWindow(o) ==
    /\ o.isGit
    /\ o.revList = Answered(Num(0))
    /\ o.lastLog = Answered(Date(2160))
    /\ ~(o.diff.err /\ o.logStat.err)
    /\ o.diff.err => o.logStat.out = <<>>

\* C17: a repository with commits but none in the window gets an error-free
\* record with CommitCount, FilesChanged, LinesAdded and LinesDeleted 0 and the
\* date of its last commit, whichever change-stat query answers.
C17_NothingInWindowIsZero ==
    \A i \in Asked :
        LET r == analysed[i].analysis
        IN  NoCommitInWindow(answers[i]) =>
                /\ r.Error = ""
                /\ r.CommitCount = 0
                /\ r.FilesChanged = 0
                /\ r.LinesAdded = 0
                /\ r.LinesDeleted = 0
                /\ r.LastCommitDate = HoursAgo(2160)

\* the lines of an output that have the three fields of a diff-stat line
Parsed(output) == SelectSeq(output, LAMBDA parts : Len(parts) >= 3)

\* the sum of the numeric k-th fields
RECURSIVE NumericSum(_, _)
NumericSum(lines, k) ==
    IF lines = <<>> THEN 0
    ELSE (IF Head(lines)[k].num THEN Head(lines)[k].v ELSE 0)
             + NumericSum(Tail(lines), k)

\* the file paths: everything after the two counts
FilePaths(lines) == {SubSeq(lines[j], 3, Len(lines[j])) : j \in 1..Len(lines)}

\* C18: for the output that answered, LinesAdded and LinesDeleted are the sums
\* of the numeric fields, a non-numeric field counts 0 and tags no error, and
\* FilesChanged is the number of distinct file paths.
C18_SumsAndDistinctPaths ==
    \A i \in Asked :
        LET o == answers[i]
            r == analysed[i].analysis
            lines == Parsed(IF o.diff.err THEN o.logStat.out ELSE o.diff.out)
        IN  ~analysed[i].gaveUp =>
                /\ r.Error = ""
                /\ r.LinesAdded = NumericSum(lines, 1)
                /\ r.LinesDeleted = NumericSum(lines, 2)
                /\ r.FilesChanged = Cardinality(FilePaths(lines))

\* the nodes of the tree in depth-first order, entries in lexical order
PreOrder ==
    <<BaseDir, AppDir, AppGit, AppGitModules, AppGitModulesGit,
      VendorDir, VendorGit, WebDir, WebGit>>

\* no directory above p is named .git
OutsideGit(p) == \A k \in 1..(Len(p) - 1) : p[k] # ".git"

\* the .git directories reachable without passing through a .git directory
IsMarker(p) ==
    /\ Base(p) = ".git"
    /\ Kind(fs, p) = "dir"
    /\ Exists(fs, p)
    /\ OutsideGit(p)

Parents(s) == [i \in 1..Len(s) |-> Dir(s[i])]
IsPrefix(s, t) == Len(s) <= Len(t) /\ s = SubSeq(t, 1, Len(s))

\* C19: the walk returns the parents of the reachable .git directories in
\* depth-first order, each once; it visits nothing inside a .git directory;
\* a repository below another repository's working tree is returned.
C19_DiscoveryFindsMarkers ==
    LET expected == Parents(SelectSeq(PreOrder, IsMarker))
    IN  /\ IsPrefix(repositories, expected)
        /\ pc = "analyze" \/ ret = ReturnResults => repositories = expected
        /\ \A i, j \in 1..Len(repositories) :
               repositories[i] = repositories[j] => i = j
        /\ \A i \in 1..Len(visited) : OutsideGit(visited[i])

\* app, the repository app/vendor below it, and web
C19_Witness ==
    /\ pc = "analyze"
    /\ repositories = <<AppDir, VendorDir, WebDir>>
    /\ visited = <<BaseDir, AppDir, AppGit, VendorDir, VendorGit, WebDir, WebGit>>

\* C20: no step of the analysis stage changes the results (keeps a record,
\* counts it, sorts the list) unless every discovered repository has its
\* record by the end of that step.
C20_AggregationBarrier ==
    [][(pc = "analyze" /\ results' # results)
           => Len(analysed') = Len(repositories)]_vars

\* the two filters, as the configuration decides them for a record
Kept(r) ==
    /\ config.IncludeInactive \/ r.CommitCount # 0
    /\ ~RLt(r.ChangePercentage, config.MinChangeThreshold)

\* C20, amended: the results are sorted and returned only when every
\* discovered repository has its record; a record is filtered right after its
\* own analysis, so during the loop the list is the kept records analysed so
\* far, in discovery order.
C20_SortWaitsFilterDoesNot ==
    /\ ret = ReturnResults => Len(analysed) = Len(repositories)
    /\ pc = "analyze" =>
           results.Results =
               SelectSeq([i \in 1..Len(analysed) |-> analysed[i].analysis], Kept)

\* two of three repositories analysed, one record kept and one dropped
C20_Witness ==
    /\ pc = "analyze"
    /\ Len(repositories) = 3
    /\ Len(analysed) = 2
    /\ Len(results.Results) = 1
    /\ ret = NotReturned

\* the commit-count, last-commit and change-stats commands
Queries == {"revList", "lastLog", "diff", "logStat"}

\* C21: the first failing command among the commit-count, last-commit and
\* change-stats queries is the last command run for the repository, and the
\* record carries an error.
C21_FirstFailureIsTerminal ==
    \A i \in Asked :
        LET o == answers[i]
            q == invocations(o)
        IN  \A k \in 1..Len(q) :
                (q[k] \in Queries /\ o[q[k]].err) =>
                    /\ k = Len(q)
                    /\ analysed[i].analysis.Error # ""

\* C21, amended: no command is run twice; a failing rev-list, log -1 or
\* windowed log is the last command and tags the record; a failing diff is
\* followed by the windowed log, once, and tags nothing when that answers.
C21_NoRetryOneFallback ==
    \A i \in Asked :
        LET o == answers[i]
            q == invocations(o)
            r == analysed[i].analysis
        IN  /\ \A k, l \in 1..Len(q) : q[k] = q[l] => k = l
            /\ \A k \in 1..Len(q) :
                   /\ (q[k] \in Queries \ {"diff"} /\ o[q[k]].err) =>
                          k = Len(q) /\ r.Error # ""
                   /\ (q[k] = "diff" /\ o.diff.err) =>
                          /\ k < Len(q) /\ q[k + 1] = "logStat"
                          /\ ~o.logStat.err => r.Error = ""
                   /\ (q[k] = "logStat") => q[k - 1] = "diff" /\ o.diff.err
            /\ r.Error = "" =>
                   \A k \in 1..Len(q) :
                       (q[k] \in Queries \ {"diff"}) => ~o[q[k]].err

\* the diff failed, the windowed log answered, the record has no error
C21_Witness ==
    \E i \in Asked :
        /\ answers[i].diff.err
        /\ answers[i].logStat = Answered(<<LineMain>>)
        /\ analysed[i].analysis.Error = ""
        /\ analysed[i].analysis.LinesAdded = 600

\* C22: when a git command of one repository never returns, the run still
\* completes: every discovered repository gets a record, the one of the hung
\* command with an error, and the results are returned.
C22_HungQueryTimesOut ==
    (pc = "hung") ~>
        (/\ ret = ReturnResults
         /\ Len(analysed) = Len(repositories)
         /\ \E r \in Returned : r.Error # "")

\* commit counts to compare a record with
CommitCounts == {0, 1, 2, 10, 45}

\* C23: with the change percentage and the date of the last commit fixed, a
\* record with more commits never has a lower risk score.
C23_MonotoneInCommits ==
    \A r \in ErrorFree :
        \A c \in CommitCounts :
            c >= r.CommitCount =>
                RLe(calculateRiskScore(r),
                    calculateRiskScore([r EXCEPT !.CommitCount = c]))

\* the calls of cloneRepository that ran git clone with success
Cloned == {i \in 1..Len(clones) : clones[i].ran /\ ~clones[i].err}

\* C24: cloneRepository runs no clone command and returns success when the
\* path exists and leaves the directory as it is, so over all runs a path is
\* cloned at most once, also when two repositories have the same name.
C24_CloneIsIdempotent ==
    /\ \A i \in 1..Len(clones) :
           clones[i].existed => ~clones[i].ran /\ ~clones[i].err
    /\ \A i, j \in Cloned :
           clones[i].repo.Name = clones[j].repo.Name => i = j
    /\ \A i \in Cloned : \A j \in (i + 1)..Len(clones) :
           clones[j].repo.Name = clones[i].repo.Name => clones[j].existed
    /\ disk = {clones[i].repo.Name : i \in Cloned}

\* api is cloned in the first run; the other repository named api is skipped
\* in the same run and api is skipped again in the second run
C24_Witness ==
    \E i, j, k \in 1..Len(clones) :
        /\ i \in Cloned /\ clones[i].repo = RepoApi /\ clones[i].run = 1
        /\ clones[j].repo = RepoApiCopy /\ clones[j].run = 1
        /\ clones[j].existed /\ ~clones[j].ran /\ ~clones[j].err
        /\ clones[k].repo = RepoApi /\ clones[k].run = 2
        /\ clones[k].existed /\ ~clones[k].ran /\ ~clones[k].err

\* the calls of cloneRepository made for group g (0: no group loop), the
\* repositories they were made for, and whether the listing for g failed
ClonesOf(g) == SelectSeq(clones, LAMBDA c : c.group = g)
ReposOf(s) == [i \in 1..Len(s) |-> s[i].repo]
ListingFailed(g) ==
    \E i \in 1..Len(requests) :
        requests[i].group = g /\ requests[i].list # "groups" /\ requests[i].resp.err

\* C25: a clone that fails stops nothing: every repository of the download
\* list gets its call of cloneRepository, the function returns no error, a
\* failed clone is not counted, and in all-groups mode every group listed
\* gets its call whatever the calls before returned.
C25_CloneFailureIsolated ==
    /\ (dpc \in {"done", "group"} /\ ~ListingFailed(groupIndex)) =>
           ReposOf(ClonesOf(groupIndex)) = reposToDownload
    /\ dret = "error" => Last(requests).resp.err
    /\ \A k \in 1..Len(returns) :
           /\ returns[k].err => ListingFailed(returns[k].group)
           /\ ~returns[k].err =>
                  returns[k].downloaded =
                      Cardinality({i \in 1..Len(clones) :
                                      /\ clones[i].group = returns[k].group
                                      /\ ~clones[i].err})
    /\ (dconfig.AllGroups /\ dpc = "done" /\ dret = "nil") =>
           /\ Len(returns) = Len(allGroups)
           /\ \A k \in 1..Len(returns) : returns[k].group = k

\* all-groups mode: the listing of the first group fails; in the second
\* group the clone of api fails and web is cloned and counted
C25_Witness ==
    /\ dconfig.AllGroups
    /\ dpc = "done"
    /\ dret = "nil"
    /\ Len(returns) = 2
    /\ returns[1].err
    /\ ~returns[2].err /\ returns[2].downloaded = 1
    /\ ReposOf(clones) = <<RepoApi, RepoWeb>>
    /\ clones[1].err /\ ~clones[2].err /\ clones[2].ran

\* the listings requested so far, the requests of one of them in order, and
\* the items of its responses put end to end
Listings ==
    {[list |-> requests[i].list, group |-> requests[i].group] : i \in 1..Len(requests)}
RequestsOf(id) ==
    SelectSeq(requests, LAMBDA r : r.list = id.list /\ r.group = id.group)
RECURSIVE ItemsOf(_)
ItemsOf(rs) ==
    IF rs = <<>> THEN <<>> ELSE Head(rs).resp.items \o ItemsOf(Tail(rs))
ListingState(id) ==
    CASE id.list = "repos" -> "listRepos"
      [] id.list = "projects" -> "listProjects"
      [] id.list = "groups" -> "listGroups"

PaginationInOrder ==
    \A id \in Listings :
        LET rs == RequestsOf(id)
            last == Last(rs)
            current == id.list = "groups" \/ id.group = groupIndex
        IN  \* the first page, then the page each response names
            /\ rs[1].page = FirstPage(dconfig)
            /\ \A k \in 2..Len(rs) :
                   /\ ~rs[k - 1].resp.err
                   /\ rs[k - 1].resp.NextPage # 0
                   /\ rs[k].page = rs[k - 1].resp.NextPage
            \* the loop goes on exactly while NextPage is not 0
            /\ (~last.resp.err /\ last.resp.NextPage # 0) =>
                   /\ dpc = ListingState(id)
                   /\ current
                   /\ page = last.resp.NextPage
            /\ (dpc = ListingState(id) /\ current) =>
                   ~last.resp.err /\ last.resp.NextPage # 0
            \* the items of every page, once, in page order
            /\ (~last.resp.err /\ current) =>
                   ItemsOf(rs) = IF id.list = "groups" THEN allGroups ELSE allRepos
            \* an error gives up the listing and downloads nothing of it
            /\ last.resp.err =>
                   IF id.list = "groups"
                   THEN clones = <<>> /\ checks = <<>> /\ dret = "error"
                   ELSE /\ ClonesOf(id.group) = <<>>
                        /\ \A i \in 1..Len(checks) : checks[i].group # id.group
                        /\ IF dconfig.Platform = "github"
                           THEN dret = "error"
                           ELSE \E k \in 1..Len(returns) :
                                    /\ returns[k].group = id.group
                                    /\ returns[k].err
                                    /\ returns[k].downloaded = 0

\* C26: each pagination loop asks for the first page and then for the page
\* NextPage of each response, stops exactly at NextPage = 0, collects the
\* items of the pages once and in order, gives up with an error and without
\* any download when a page fails, and ends when the API reports NextPage = 0.
C26_Pagination == []PaginationInOrder /\ <>(dpc = "done")

\* GitHub: page 0 answers NextPage 2, page 2 answers NextPage 0; the three
\* repositories of the two pages are collected in order
C26_Witness ==
    /\ dconfig.Platform = "github"
    /\ Len(requests) = 2
    /\ requests[1].page = 0 /\ requests[1].resp.NextPage = 2
    /\ requests[2].page = 2 /\ requests[2].resp.NextPage = 0
    /\ ~requests[2].resp.err
    /\ allRepos = <<RepoApi, RepoWeb, RepoApiCopy>>

\* a catalog file that was fetched and parsed and says production
IsProduction(a) ==
    /\ ~a.err /\ a.file /\ a.base64 /\ a.yaml
    /\ a.lifecycle = "production"

\* what a check has to have seen for its repository to count as production:
\* GitLab looks at the branch master when main has no such file
Qualifies(c) ==
    \/ IsProduction(c.main)
    \/ /\ dconfig.Platform = "gitlab"
       /\ c.main.err /\ c.main.status = 404
       /\ IsProduction(c.master)

ChecksOf(g) == SelectSeq(checks, LAMBDA c : c.group = g)

\* C27: in production mode every listed repository is checked, in order and
\* whatever the checks before returned, the download list is the repositories
\* whose check found a production catalog, in listing order, and nothing else
\* is cloned; without production mode the download list is the listing.
C27_ProductionFilter ==
    LET cs == ChecksOf(groupIndex)
    IN  /\ dconfig.ProdMode =>
               /\ ReposOf(cs) = SubSeq(allRepos, 1, checked)
               /\ productionRepos = ReposOf(SelectSeq(cs, Qualifies))
               /\ dpc = "filter" => checked < Len(allRepos)
               /\ dpc = "clone" =>
                      checked = Len(allRepos) /\ reposToDownload = productionRepos
               /\ \A i \in 1..Len(clones) :
                      \E k \in 1..Len(checks) :
                          /\ checks[k].repo = clones[i].repo
                          /\ checks[k].group = clones[i].group
                          /\ Qualifies(checks[k])
        /\ ~dconfig.ProdMode =>
               /\ checks = <<>>
               /\ dpc = "clone" => reposToDownload = allRepos

\* GitHub, production mode: the check of api fails, web is production, the
\* other api has no catalog file; web alone is cloned
C27_Witness ==
    /\ dconfig.Platform = "github" /\ dconfig.ProdMode
    /\ dpc = "done"
    /\ allRepos = <<RepoApi, RepoWeb, RepoApiCopy>>
    /\ checks[1].main = CatalogFetchError
    /\ checks[2].main = Catalog("production")
    /\ checks[3].main = CatalogNotFound
    /\ reposToDownload = <<RepoWeb>>
    /\ ReposOf(clones) = <<RepoWeb>> /\ clones[1].ran /\ ~clones[1].err

====
